---- MODULE Spec2Model ----
(***************************************************************************)
(* A model of src/preview_engine.py: one run of PreviewEngine, from the    *)
(* construction of the engine (which loads the JSON design directive) to   *)
(* the classification of preview_directive.events into the JDE decision    *)
(* sequence and the three JOE audit buckets, the building of the five      *)
(* views and of the JOE panel, and the writing of the output document.     *)
(*                                                                         *)
(* A JSON object (a Python dict) is a TLA+ record whose DOMAIN is the set  *)
(* of keys that are present, so that dict.get(key, default) is modelled by *)
(* what it does.  A Python list is a sequence.  The markup that            *)
(* _generate_html emits is modelled by the data it embeds: one record per  *)
(* card, row, section or item, in emission order.                          *)
(***************************************************************************)
EXTENDS Integers, Sequences, FiniteSets, Bags, TLC

VARIABLES
    file,               \* what is at json_path: unreadable, not JSON, or a document
    pc,                 \* position of the run
    raised,             \* the exception that ended the run, "none" while it runs
    design_data,        \* self.design_data
    timeline_log,       \* self.timeline_log
    jde_events,         \* _generate_html: jde_events
    joe_data,           \* _generate_html: joe_data
    views,              \* _generate_html: the locals that hold the view data
    output              \* the documents written to output_path, in order

vars == <<file, pc, raised, design_data, timeline_log, jde_events, joe_data, views, output>>

-----------------------------------------------------------------------------
(* Bounds of the model: the longest event list of each family of inputs.    *)

MaxClassify == 3

MaxSignals == 5

MaxHistory == 6

MaxAction == 4

MaxReasons == 3

(* The literals of the program.                                             *)

LastJdeStage == 7

ObservationStage == 8

EvaluationStage == 9

EvolutionStage == 10

SignalCount == 4

HistoryCount == 5

-----------------------------------------------------------------------------
(* Python helpers.                                                          *)

\* dict.get(key, default)
Get(e, key, default) == IF key \in DOMAIN e THEN e[key] ELSE default

\* the truth value of dict.get(key) for a key that holds a JSON boolean
\* (a missing key gives None, which is false)
Truthy(e, key) == key \in DOMAIN e /\ e[key] = TRUE

\* the mutant of ListAppend: list.insert(0, e)
ListPrepend(l, e) == <<e>> \o l

\* list.append(e)
ListAppend(l, e) == Append(l, e)

EmptyJoe == [observation |-> <<>>, evaluation |-> <<>>, evolution |-> <<>>]

-----------------------------------------------------------------------------
(* _get_events, lines 46-65: the dispatch on stage and the single pass.     *)

\* the mutant of StageGroup: stage 9 filed under observation
StageGroupEvalAsObs(stage) ==
    IF stage <= LastJdeStage THEN "jde"
    ELSE IF stage = ObservationStage THEN "observation"
    ELSE IF stage = EvaluationStage THEN "observation"
    ELSE IF stage = EvolutionStage THEN "evolution"
    ELSE "dropped"

\* the mutant of StageGroup: observation events kept in the decision sequence
StageGroupObsAsJde(stage) ==
    IF stage <= ObservationStage THEN "jde"
    ELSE IF stage = EvaluationStage THEN "evaluation"
    ELSE IF stage = EvolutionStage THEN "evolution"
    ELSE "dropped"

\* the branch of the if/elif chain that an integer stage takes
StageGroup(stage) ==
    IF stage <= LastJdeStage THEN "jde"
    ELSE IF stage = ObservationStage THEN "observation"
    ELSE IF stage = EvaluationStage THEN "evaluation"
    ELSE IF stage = EvolutionStage THEN "evolution"
    ELSE "dropped"

\* one iteration of the for loop over events
ClassifyOne(acc, e) ==
    LET stage == Get(e, "stage", 0)
        group == StageGroup(stage)
    IN  IF group = "jde"
            THEN [acc EXCEPT !.jde = ListAppend(@, e)]
        ELSE IF group = "dropped"
            THEN acc
        ELSE [acc EXCEPT !.joe[group] = ListAppend(@, e)]

RECURSIVE ClassifyLoop(_, _)
ClassifyLoop(events, acc) ==
    IF events = <<>> THEN acc
    ELSE ClassifyLoop(Tail(events), ClassifyOne(acc, Head(events)))


\* the classifier's result on a list of event objects
Classify(events) == ClassifyLoop(events, [jde |-> <<>>, joe |-> EmptyJoe])

-----------------------------------------------------------------------------
(* JSON values other than event objects carry their kind: an object has    *)
(* fields, and what a for loop can iterate has items (the elements of an    *)
(* array, the characters of a string, the keys of an object).               *)

EmptyObject == [kind |-> "object", fields |-> <<>>, items |-> <<>>]

EmptyArray == [kind |-> "array", items |-> <<>>]

\* _get_events, lines 40-65.  Returns the exception raised ("none" when the
\* call returns) and the pair the call returns.
\*   line 41: .get on a value that is no dict raises AttributeError, which
\*            line 42 catches, and line 44 returns the empty result;
\*   line 54: iterating null or a number raises TypeError; iterating a string
\*            or an object yields strings, and line 55 then raises
\*            AttributeError on the first of them.  Neither is caught: the
\*            loop is outside the try block.
GetEventsResult(dd) ==
    LET empty  == [raised |-> "none", jde |-> <<>>, joe |-> EmptyJoe]
        fail(x) == [raised |-> x, jde |-> <<>>, joe |-> EmptyJoe]
    IN  IF dd.kind # "object" THEN empty
        ELSE LET pd == Get(dd.fields, "preview_directive", EmptyObject)
             IN  IF pd.kind # "object" THEN empty
                 ELSE LET events == Get(pd.fields, "events", EmptyArray)
                      IN  IF events.kind \in {"null", "number"}
                              THEN fail("TypeError")
                          ELSE IF events.kind \in {"string", "object"}
                              THEN IF events.items = <<>> THEN empty
                                   ELSE fail("AttributeError")
                          ELSE LET c == Classify(events.items)
                               IN  [raised |-> "none", jde |-> c.jde, joe |-> c.joe]

-----------------------------------------------------------------------------
(* _generate_html, lines 203-277: the views.                                *)

Min(a, b) == IF a <= b THEN a ELSE b

Max(a, b) == IF a >= b THEN a ELSE b

\* l[:n]
SliceFirst(l, n) == SubSeq(l, 1, Min(n, Len(l)))

\* l[-n:]
SliceLast(l, n) == SubSeq(l, Max(1, Len(l) - n + 1), Len(l))

\* the mutant of IsWarning: only safety_trigger counts
IsWarningSafetyOnly(e) == Truthy(e, "safety_trigger")

\* line 206: the condition of the generator
IsWarning(e) == Truthy(e, "safety_trigger") \/ Truthy(e, "human_gate")

\* line 206: sum(1 for e in jde_events if ...)
RECURSIVE SumWarnings(_)
SumWarnings(l) ==
    IF l = <<>> THEN 0
    ELSE (IF IsWarning(Head(l)) THEN 1 ELSE 0) + SumWarnings(Tail(l))

\* lines 204, 208-209
GlobalStatus(warning_count) == IF warning_count > 0 THEN "Warning" ELSE "OK"

\* the mutant of IsAction: any event that has a type
IsActionAnyType(e) == "type" \in DOMAIN e

\* line 213: e.get('type') == 'action'
IsAction(e) == "type" \in DOMAIN e /\ e["type"] = "action"

\* line 213: next((e for e in jde_events if ...), None); None is <<>>, an
\* event found is <<e>>
RECURSIVE NextAction(_)
NextAction(l) ==
    IF l = <<>> THEN <<>>
    ELSE IF IsAction(Head(l)) THEN <<Head(l)>>
    ELSE NextAction(Tail(l))

\* lines 214-225: the card is rendered when one_thing is truthy (an event was
\* found and it is not the empty dict)
OneThingHtml(one_thing) ==
    IF one_thing # <<>> /\ DOMAIN one_thing[1] # {}
        THEN << [title        |-> Get(one_thing[1], "title", ""),
                 description  |-> Get(one_thing[1], "description", ""),
                 action_label |-> Get(one_thing[1], "action_label", "run")] >>
        ELSE <<>>

\* the mutant of SignalStatus: human_gate tested first
SignalStatusGateFirst(event) ==
    IF Truthy(event, "human_gate") THEN "warning"
    ELSE IF Truthy(event, "safety_trigger") THEN "danger"
    ELSE "normal"

\* lines 230-234
SignalStatus(event) ==
    IF Truthy(event, "safety_trigger") THEN "danger"
    ELSE IF Truthy(event, "human_gate") THEN "warning"
    ELSE "normal"

\* lines 236-245: one signal card
SignalCard(event) ==
    [status   |-> SignalStatus(event),
     icon     |-> Get(event, "icon", "chart"),
     headline |-> Get(event, "title", ""),
     value    |-> Get(event, "value", ""),
     progress |-> Get(event, "progress", 0)]

\* lines 228-245
SignalCardsHtml(jde) ==
    LET first == SliceFirst(jde, SignalCount)
    IN  [i \in 1..Len(first) |-> SignalCard(first[i])]

\* lines 250-258: one history row; the badge's class and its text read the
\* status with different defaults
HistoryRow(event) ==
    [time         |-> Get(event, "time", "00:00"),
     activity     |-> Get(event, "title", ""),
     status_class |-> Get(event, "status", "normal"),
     status_text  |-> Get(event, "status", "OK")]

\* the mutant of HistoryEvents: the first five events
HistoryEventsFirst(jde) == SliceFirst(jde, HistoryCount)

\* line 249: jde_events[-5:]
HistoryEvents(jde) == SliceLast(jde, HistoryCount)

\* lines 248-258
HistoryHtml(jde) ==
    LET last == HistoryEvents(jde)
    IN  [i \in 1..Len(last) |-> HistoryRow(last[i])]

\* the mutant of ReasonItem: description preferred to reasoning
ReasonItemDescriptionFirst(e) == Get(e, "description", Get(e, "reasoning", ""))

\* line 268: the text of one item
ReasonItem(e) == Get(e, "reasoning", Get(e, "description", ""))

\* line 263: [e for e in jde_events if e.get('stage') == stage]
StageEvents(jde, stage) ==
    LET Matches(e) == "stage" \in DOMAIN e /\ e["stage"] = stage
    IN  SelectSeq(jde, Matches)

\* lines 262-275: the loop over range(1, 8) from stage on.  The heading of a
\* section is stage_mapping[stage], one fixed heading per stage; the section
\* is recorded with its stage.
RECURSIVE ReasonSectionsFrom(_, _)
ReasonSectionsFrom(jde, stage) ==
    IF stage > LastJdeStage THEN <<>>
    ELSE LET stage_events == StageEvents(jde, stage)
             section == [stage |-> stage,
                         items |-> [i \in 1..Len(stage_events) |->
                                        ReasonItem(stage_events[i])]]
         IN  (IF stage_events # <<>> THEN <<section>> ELSE <<>>)
                 \o ReasonSectionsFrom(jde, stage + 1)

ReasonSectionsHtml(jde) == ReasonSectionsFrom(jde, 1)

-----------------------------------------------------------------------------
(* _render_joe_panel, lines 135-184.                                        *)

\* lines 143-156: one item of a section
JoeItem(e, stage) ==
    [title       |-> Get(e, "title", "Untitled"),
     stage       |-> stage,
     description |-> Get(e, "description", ""),
     meta        |-> {k \in {"input", "output", "reasoning"} : k \in DOMAIN e}]

\* the mutant of RenderJoeSection: an empty bucket renders no placeholder
RenderJoeSectionNoPlaceholder(title, events, stage) ==
    [title |-> title, empty |-> "",
     items |-> [i \in 1..Len(events) |-> JoeItem(events[i], stage)]]

\* lines 137-163: render_joe_section
RenderJoeSection(title, events, stage) ==
    IF events = <<>>
        THEN [title |-> title, empty |-> "No data recorded", items |-> <<>>]
        ELSE [title |-> title, empty |-> "",
              items |-> [i \in 1..Len(events) |-> JoeItem(events[i], stage)]]

\* the mutant of RenderJoePanel: the section of an empty bucket is left out
RenderJoePanelOmitEmpty(joe) ==
    (IF joe.observation = <<>> THEN <<>>
     ELSE <<RenderJoeSection("Observation", joe.observation, ObservationStage)>>)
        \o (IF joe.evaluation = <<>> THEN <<>>
            ELSE <<RenderJoeSection("Evaluation", joe.evaluation, EvaluationStage)>>)
        \o (IF joe.evolution = <<>> THEN <<>>
            ELSE <<RenderJoeSection("Evolution", joe.evolution, EvolutionStage)>>)

\* lines 165-184
RenderJoePanel(joe) ==
    << RenderJoeSection("Observation", joe.observation, ObservationStage),
       RenderJoeSection("Evaluation", joe.evaluation, EvaluationStage),
       RenderJoeSection("Evolution", joe.evolution, EvolutionStage) >>

\* lines 203-277: every view of the document
BuildViewData(jde, joe) ==
    LET warning_count == SumWarnings(jde)
        one_thing     == NextAction(jde)
    IN  [warning_count        |-> warning_count,
         global_status        |-> GlobalStatus(warning_count),
         one_thing            |-> one_thing,
         one_thing_html       |-> OneThingHtml(one_thing),
         signal_cards_html    |-> SignalCardsHtml(jde),
         history_html         |-> HistoryHtml(jde),
         reason_sections_html |-> ReasonSectionsHtml(jde),
         joe_panel            |-> RenderJoePanel(joe)]

\* the locals of _generate_html before they are assigned
NoViews ==
    [warning_count        |-> 0,
     global_status        |-> "unset",
     one_thing            |-> <<>>,
     one_thing_html       |-> <<>>,
     signal_cards_html    |-> <<>>,
     history_html         |-> <<>>,
     reason_sections_html |-> <<>>,
     joe_panel            |-> <<>>]


-----------------------------------------------------------------------------
(* The inputs of a run.  An event is a JSON object whose fields are all     *)
(* optional; each family below varies the fields one part of the program    *)
(* reads, over event lists of every length up to the family's bound.        *)

SeqsUpTo(S, n) == UNION {[1..k -> S] : k \in 0..n}

\* stages below, in and above 1..10, a missing stage, and equal stages told
\* apart by their titles
ClassifyPool ==
    {[title |-> "A"]}
        \cup {[stage |-> s, title |-> "A"] : s \in {-1, 0, 1, 4, 7, 8, 9, 10, 11}}
        \cup {[stage |-> s, title |-> "B"] : s \in {1, 8, 9, 10}}

\* the four combinations of the two flags, and a flagged audit event
SignalsPool ==
    { [stage |-> 1, title |-> "A"],
      [stage |-> 2, title |-> "B", safety_trigger |-> TRUE],
      [stage |-> 3, title |-> "C", safety_trigger |-> FALSE, human_gate |-> TRUE],
      [stage |-> 4, title |-> "D", safety_trigger |-> TRUE, human_gate |-> TRUE],
      [stage |-> 8, title |-> "O", safety_trigger |-> TRUE] }

\* events with and without a status and a time
HistoryPool ==
    { [stage |-> 1, title |-> "A"],
      [stage |-> 2, title |-> "B", time |-> "09:30", status |-> "warning"],
      [stage |-> 3, title |-> "C", status |-> "normal"],
      [stage |-> 9, title |-> "E", time |-> "10:00", status |-> "danger"] }

\* events of type action, of another type and of no type, and an audit event
\* of type action
ActionPool ==
    { [stage |-> 1, title |-> "A", type |-> "action"],
      [stage |-> 2, title |-> "B", type |-> "action", action_label |-> "Go",
       description |-> "dB"],
      [stage |-> 1, title |-> "C", type |-> "normal"],
      [stage |-> 3, title |-> "D"],
      [stage |-> 8, title |-> "O", type |-> "action"] }

\* events with a reasoning, a description, both or neither, in several stages
ReasonsPool ==
    { [stage |-> 1, reasoning |-> "r1"],
      [stage |-> 1, description |-> "d1"],
      [stage |-> 1, reasoning |-> "r2", description |-> "d2"],
      [stage |-> 2, reasoning |-> "r3"],
      [stage |-> 7, description |-> "d7"],
      [stage |-> 7, title |-> "T"],
      [stage |-> 8, reasoning |-> "r8", input |-> "i8"],
      [stage |-> 0, reasoning |-> "r0"],
      [stage |-> 10, description |-> "d10"] }

EventLists ==
    SeqsUpTo(ClassifyPool, MaxClassify)
        \cup SeqsUpTo(SignalsPool, MaxSignals)
        \cup SeqsUpTo(HistoryPool, MaxHistory)
        \cup SeqsUpTo(ActionPool, MaxAction)
        \cup SeqsUpTo(ReasonsPool, MaxReasons)

\* a well-formed design directive around a list of events
Directive(events) ==
    [kind   |-> "object",
     fields |-> [system_name |-> "JJO", version |-> "2.0",
                 preview_directive |->
                     [kind   |-> "object",
                      fields |-> [events |-> [kind |-> "array", items |-> events]]]]]

\* the values that may stand where the event array is expected
EventsValues ==
    { [kind |-> "null"], [kind |-> "number"],
      [kind |-> "string", items |-> <<>>], [kind |-> "string", items |-> <<"a">>],
      [kind |-> "object", fields |-> <<>>, items |-> <<>>],
      [kind |-> "object", fields |-> [k |-> "v"], items |-> <<"k">>],
      [kind |-> "array", items |-> <<>>],
      [kind |-> "array", items |-> <<[stage |-> 1, title |-> "A"]>>] }

\* the values that may stand where the preview_directive object is expected
DirectiveValues ==
    { [kind |-> "null"], [kind |-> "number"],
      [kind |-> "string", items |-> <<"a">>],
      [kind |-> "array", items |-> <<>>],
      [kind |-> "object", fields |-> <<>>, items |-> <<>>],
      [kind |-> "object", fields |-> [other |-> "x"], items |-> <<"other">>] }
        \cup { [kind |-> "object", fields |-> [events |-> v], items |-> <<"events">>] :
                   v \in EventsValues }

\* documents whose preview_directive.events path is absent, not addressable
\* or ill-typed, and documents that are no object
OddDocuments ==
    { [kind |-> "array", items |-> <<>>], [kind |-> "null"],
      [kind |-> "object", fields |-> <<>>],
      [kind |-> "object", fields |-> [system_name |-> "JJO"]] }
        \cup { [kind |-> "object", fields |-> [preview_directive |-> v]] :
                   v \in DirectiveValues }
        \cup { [kind |-> "object",
                fields |-> [version |-> "2.0", preview_directive |-> v]] :
                   v \in DirectiveValues }

Documents == {Directive(events) : events \in EventLists} \cup OddDocuments

Files ==
    { [status |-> "missing"], [status |-> "invalid"] }
        \cup { [status |-> "ok", data |-> d] : d \in Documents }

-----------------------------------------------------------------------------
(* The run.                                                                 *)

NoData == [kind |-> "null"]

Init ==
    /\ file \in Files
    /\ pc = "start"
    /\ raised = "none"
    /\ design_data = NoData
    /\ timeline_log = <<>>
    /\ jde_events = <<>>
    /\ joe_data = EmptyJoe
    /\ views = NoViews
    /\ output = <<>>

\* the mutant of Construct: a failed load falls back to an empty directive
\* instead of calling sys.exit(1)
ConstructWithoutExit ==
    /\ pc = "start"
    /\ design_data' = (IF file.status = "ok" THEN file.data
                       ELSE [kind |-> "object", fields |-> <<>>])
    /\ pc' = "constructed"
    /\ raised' = "none"
    /\ timeline_log' = <<>>
    /\ UNCHANGED <<file, jde_events, joe_data, views, output>>

\* __init__ and _load_json, lines 21-36: the file is read and parsed; a
\* missing file or invalid JSON prints a message and calls sys.exit(1)
Construct ==
    /\ pc = "start"
    /\ IF file.status = "ok"
           THEN /\ design_data' = file.data
                /\ pc' = "constructed"
                /\ raised' = "none"
           ELSE /\ design_data' = design_data
                /\ pc' = "exit1"
                /\ raised' = "SystemExit"
    /\ timeline_log' = <<>>
    /\ UNCHANGED <<file, jde_events, joe_data, views, output>>

\* the mutant of GetEvents: the loop consumes the event list of the design
\* directive (events.pop(0)) instead of iterating over it
GetEventsConsuming ==
    /\ pc = "constructed"
    /\ LET r == GetEventsResult(design_data)
       IN  /\ raised' = r.raised
           /\ pc' = IF r.raised = "none" THEN "classified" ELSE "aborted"
           /\ jde_events' = r.jde
           /\ joe_data' = r.joe
           /\ design_data' =
                  IF /\ r.raised = "none"
                     /\ design_data.kind = "object"
                     /\ "preview_directive" \in DOMAIN design_data.fields
                     /\ design_data.fields.preview_directive.kind = "object"
                     /\ "events" \in DOMAIN design_data.fields.preview_directive.fields
                     /\ design_data.fields.preview_directive.fields.events.kind = "array"
                      THEN [design_data EXCEPT
                                !.fields.preview_directive.fields.events.items = <<>>]
                      ELSE design_data
    /\ UNCHANGED <<file, timeline_log, views, output>>

\* generate_preview line 934 and _generate_html line 188: the call of
\* _get_events
GetEvents ==
    /\ pc = "constructed"
    /\ LET r == GetEventsResult(design_data)
       IN  /\ raised' = r.raised
           /\ pc' = IF r.raised = "none" THEN "classified" ELSE "aborted"
           /\ jde_events' = r.jde
           /\ joe_data' = r.joe
    /\ UNCHANGED <<file, design_data, timeline_log, views, output>>

\* _generate_html lines 189-927: system_name and version are read with .get
\* (AttributeError when design_data is no dict), then the views are built
GenerateHtml ==
    /\ pc = "classified"
    /\ IF design_data.kind = "object"
           THEN /\ views' = BuildViewData(jde_events, joe_data)
                /\ pc' = "built"
                /\ raised' = "none"
           ELSE /\ views' = views
                /\ pc' = "aborted"
                /\ raised' = "AttributeError"
    /\ UNCHANGED <<file, design_data, timeline_log, jde_events, joe_data, output>>

\* generate_preview lines 935-941: the document is written
WriteOutput ==
    /\ pc = "built"
    /\ output' = Append(output,
                        [system_name |-> Get(design_data.fields, "system_name", "JJO System"),
                         version     |-> Get(design_data.fields, "version", "1.0"),
                         views       |-> views])
    /\ pc' = "done"
    /\ UNCHANGED <<file, raised, design_data, timeline_log, jde_events, joe_data, views>>

Next == Construct \/ GetEvents \/ GenerateHtml \/ WriteOutput

Spec == Init /\ [][Next]_vars

(* Running the transformation again: generate_preview called again on the   *)
(* same engine, or a new engine constructed on the same file.  The locals   *)
(* of the earlier call keep their last values until the new call assigns    *)
(* them.                                                                    *)

MaxRuns == 2

\* generate_preview, lines 929-934, called again on the same instance
CallAgain ==
    /\ pc = "done"
    /\ Len(output) < MaxRuns
    /\ pc' = "constructed"
    /\ UNCHANGED <<file, raised, design_data, timeline_log, jde_events, joe_data,
                   views, output>>

\* main, lines 953-954: another PreviewEngine on the same file
NewInstance ==
    /\ pc = "done"
    /\ Len(output) < MaxRuns
    /\ pc' = "start"
    /\ UNCHANGED <<file, raised, design_data, timeline_log, jde_events, joe_data,
                   views, output>>

NextRerun == Next \/ CallAgain \/ NewInstance

SpecRerun == Init /\ [][NextRerun]_vars


-----------------------------------------------------------------------------
(* Vocabulary of the properties.                                            *)

Range(s) == {s[i] : i \in 1..Len(s)}

\* the number of occurrences of v in s
Count(v, s) == Cardinality({i \in 1..Len(s) : s[i] = v})

\* the multiset of the elements of s
BagOfSeq(s) == [v \in Range(s) |-> Count(v, s)]

\* s is t with some elements left out, the others in t's order
RECURSIVE IsSubsequence(_, _)
IsSubsequence(s, t) ==
    IF s = <<>> THEN TRUE
    ELSE IF t = <<>> THEN FALSE
    ELSE IF Head(s) = Head(t) THEN IsSubsequence(Tail(s), Tail(t))
    ELSE IsSubsequence(s, Tail(t))

\* the document has an array at preview_directive.events
HasEventArray(d) ==
    /\ d.kind = "object"
    /\ "preview_directive" \in DOMAIN d.fields
    /\ d.fields.preview_directive.kind = "object"
    /\ "events" \in DOMAIN d.fields.preview_directive.fields
    /\ d.fields.preview_directive.fields.events.kind = "array"

\* the input event sequence of the run
InputEvents ==
    IF file.status = "ok" /\ HasEventArray(file.data)
        THEN file.data.fields.preview_directive.fields.events.items
        ELSE <<>>

\* the stage of an event, a missing stage being 0
StageOf(e) == IF "stage" \in DOMAIN e THEN e.stage ELSE 0

\* _get_events has returned
Classified == pc \in {"classified", "built", "done"}

\* the views have been built
Built == pc \in {"built", "done"}

Observation == joe_data.observation

Evaluation == joe_data.evaluation

Evolution == joe_data.evolution

AllGroups == jde_events \o Observation \o Evaluation \o Evolution

-----------------------------------------------------------------------------
(* C1: the decision sequence and the three audit buckets hold, as a         *)
(* multiset, exactly the input events whose stage is in 1..10; an event     *)
(* whose stage is outside 1..10 or missing is in none of the four groups.   *)
C1_PartitionOfStages1To10 ==
    Classified =>
        LET InRange(e) == StageOf(e) \in 1..10
        IN  /\ BagOfSeq(AllGroups) = BagOfSeq(SelectSeq(InputEvents, InRange))
            /\ \A e \in Range(InputEvents) : ~InRange(e) => e \notin Range(AllGroups)

(* C2: every input event whose stage is in 1..10 is in exactly one group,   *)
(* as often as it is in the input, and the group is fixed by its stage:     *)
(* 1..7 the decision sequence, 8 observation, 9 evaluation, 10 evolution.   *)
C2_GroupFixedByStage ==
    Classified =>
        \A e \in Range(InputEvents) :
            StageOf(e) \in 1..10 =>
                LET n == Count(e, InputEvents)
                    s == StageOf(e)
                IN  /\ Count(e, jde_events)  = (IF s \in 1..7 THEN n ELSE 0)
                    /\ Count(e, Observation) = (IF s = 8 THEN n ELSE 0)
                    /\ Count(e, Evaluation)  = (IF s = 9 THEN n ELSE 0)
                    /\ Count(e, Evolution)   = (IF s = 10 THEN n ELSE 0)

C2_Witness ==
    /\ pc = "done"
    /\ Len(InputEvents) = 3
    /\ \E i, j \in 1..3 : /\ i < j
                          /\ InputEvents[i] = InputEvents[j]
                          /\ StageOf(InputEvents[i]) = 9
    /\ \E i \in 1..3 : StageOf(InputEvents[i]) \in 1..7
    /\ Len(Evaluation) = 2 /\ Len(jde_events) = 1

(* C3: the classifier is stable: each of the four groups lists its events   *)
(* in the order in which the input lists them.                              *)
C3_Stable ==
    Classified =>
        /\ IsSubsequence(jde_events, InputEvents)
        /\ IsSubsequence(Observation, InputEvents)
        /\ IsSubsequence(Evaluation, InputEvents)
        /\ IsSubsequence(Evolution, InputEvents)

C3_Witness ==
    /\ pc = "done"
    /\ Len(InputEvents) = 3
    /\ Len(Observation) = 2
    /\ Observation = <<[stage |-> 8, title |-> "B"], [stage |-> 8, title |-> "A"]>>
    /\ Len(jde_events) = 1
    /\ InputEvents[2] = jde_events[1]

(* C4: warningCount is the number of events of the decision sequence with   *)
(* safety_trigger or human_gate true, an event with both counted once, and  *)
(* the global status is "Warning" iff warningCount > 0 and "OK" otherwise.  *)
C4_WarningCount ==
    Built =>
        LET flagged == {i \in 1..Len(jde_events) :
                            \/ ("safety_trigger" \in DOMAIN jde_events[i]
                                    /\ jde_events[i].safety_trigger)
                            \/ ("human_gate" \in DOMAIN jde_events[i]
                                    /\ jde_events[i].human_gate)}
        IN  /\ views.warning_count = Cardinality(flagged)
            /\ views.global_status = "Warning" <=> views.warning_count > 0
            /\ views.global_status = "OK" <=> views.warning_count = 0

C4_Witness ==
    /\ pc = "done"
    /\ Len(jde_events) = 4
    /\ views.warning_count = 2
    /\ views.global_status = "Warning"
    /\ \E i \in 1..4 : /\ Truthy(jde_events[i], "safety_trigger")
                       /\ Truthy(jde_events[i], "human_gate")
    /\ \E i \in 1..4 : /\ ~Truthy(jde_events[i], "safety_trigger")
                       /\ Truthy(jde_events[i], "human_gate")
    /\ Len(Observation) = 1

(* C5: when preview_directive.events is absent or not addressable (the      *)
(* preview_directive key is missing, preview_directive is no object, the    *)
(* events key is missing or holds no sequence), _get_events returns an      *)
(* empty decision sequence and three empty buckets, and the run does not    *)
(* abort.                                                                   *)
C5_AbsentEventsDegrade ==
    (file.status = "ok" /\ file.data.kind = "object" /\ ~HasEventArray(file.data)) =>
        /\ pc # "aborted"
        /\ raised = "none"
        /\ Classified => (jde_events = <<>> /\ joe_data = EmptyJoe)


(* C6: when the decision sequence and the three audit buckets are empty,    *)
(* the global status is "OK", there is no highlighted action, there are no  *)
(* signal cards, history rows or reasoning sections, and the audit panel    *)
(* shows "No data recorded" for observation, evaluation and evolution.      *)
C6_EmptyViews ==
    (Built /\ jde_events = <<>> /\ joe_data = EmptyJoe) =>
        /\ views.global_status = "OK"
        /\ views.warning_count = 0
        /\ views.one_thing = <<>>
        /\ views.one_thing_html = <<>>
        /\ views.signal_cards_html = <<>>
        /\ views.history_html = <<>>
        /\ views.reason_sections_html = <<>>
        /\ Len(views.joe_panel) = 3
        /\ \A i \in 1..3 : /\ views.joe_panel[i].empty = "No data recorded"
                           /\ views.joe_panel[i].items = <<>>
        /\ <<views.joe_panel[1].title, views.joe_panel[2].title,
             views.joe_panel[3].title>> = <<"Observation", "Evaluation", "Evolution">>

C6_Witness ==
    /\ pc = "done"
    /\ jde_events = <<>> /\ joe_data = EmptyJoe
    /\ file.data.kind = "object"
    /\ "preview_directive" \notin DOMAIN file.data.fields
    /\ Len(output) = 1
    /\ output[1].views.global_status = "OK"

(* C7: the leading signals are the first min(4, n) events of the decision   *)
(* sequence, in order, each classified danger if safety_trigger is true,    *)
(* otherwise warning if human_gate is true, otherwise normal.               *)
C7_LeadingSignals ==
    Built =>
        LET cards == views.signal_cards_html
            n     == Len(jde_events)
        IN  /\ Len(cards) = (IF n < 4 THEN n ELSE 4)
            /\ \A i \in 1..Len(cards) :
                   LET e      == jde_events[i]
                       safety == "safety_trigger" \in DOMAIN e /\ e.safety_trigger
                       gate   == "human_gate" \in DOMAIN e /\ e.human_gate
                   IN  /\ cards[i].headline = (IF "title" \in DOMAIN e THEN e.title ELSE "")
                       /\ safety => cards[i].status = "danger"
                       /\ (~safety /\ gate) => cards[i].status = "warning"
                       /\ (~safety /\ ~gate) => cards[i].status = "normal"

C7_Witness ==
    /\ pc = "done"
    /\ Len(jde_events) = 5
    /\ Len(views.signal_cards_html) = 4
    /\ Truthy(jde_events[1], "safety_trigger") /\ Truthy(jde_events[1], "human_gate")
    /\ views.signal_cards_html[1].status = "danger"
    /\ views.signal_cards_html[2].status = "warning"
    /\ views.signal_cards_html[3].status = "normal"
    /\ Truthy(jde_events[5], "human_gate")

\* the text the claim gives an item: the reasoning when present, otherwise
\* the description, otherwise the empty string
ItemText(e) ==
    IF "reasoning" \in DOMAIN e THEN e.reasoning
    ELSE IF "description" \in DOMAIN e THEN e.description
    ELSE ""

\* the positions of the decision sequence whose event has stage exactly s
PositionsOfStage(s) ==
    {i \in 1..Len(jde_events) : "stage" \in DOMAIN jde_events[i] /\ jde_events[i].stage = s}

(* C8: the reasoning sections are in ascending stage order within 1..7;     *)
(* stage s has a section iff some event of the decision sequence has stage  *)
(* exactly s; a section has one item per matching event, in the order of    *)
(* the decision sequence, whose text is the reasoning when present,         *)
(* otherwise the description, otherwise the empty string.                   *)
C8_ReasoningCoverage ==
    Built =>
        LET secs == views.reason_sections_html
        IN  /\ \A i \in 1..Len(secs) : secs[i].stage \in 1..7
            /\ \A i, j \in 1..Len(secs) : i < j => secs[i].stage < secs[j].stage
            /\ \A s \in 1..7 :
                   (\E i \in 1..Len(secs) : secs[i].stage = s) <=> PositionsOfStage(s) # {}
            /\ \A i \in 1..Len(secs) :
                   LET pos == PositionsOfStage(secs[i].stage)
                   IN  /\ Len(secs[i].items) = Cardinality(pos)
                       /\ \A p \in pos :
                              secs[i].items[Cardinality({q \in pos : q <= p})]
                                  = ItemText(jde_events[p])

C8_Witness ==
    /\ pc = "done"
    /\ Len(views.reason_sections_html) = 2
    /\ views.reason_sections_html[1].items = <<"r2", "d1">>
    /\ views.reason_sections_html[2].stage = 7
    /\ views.reason_sections_html[2].items = <<"">>
    /\ jde_events[1].stage = 7

\* the status of a history row for an event, a missing status being "normal"
ShownStatus(e) == IF "status" \in DOMAIN e THEN e.status ELSE "normal"

(* C9: the recent history is the last min(5, n) events of the decision      *)
(* sequence, in original order, and the status shown for an event with no   *)
(* status field is "normal".                                                *)
C9_RecentHistory ==
    Built =>
        LET rows == views.history_html
            n    == Len(jde_events)
            k    == IF n < 5 THEN n ELSE 5
        IN  /\ Len(rows) = k
            /\ \A i \in 1..k :
                   LET e == jde_events[n - k + i]
                   IN  /\ rows[i].activity = (IF "title" \in DOMAIN e THEN e.title ELSE "")
                       /\ rows[i].status_class = ShownStatus(e)
                       /\ rows[i].status_text = ShownStatus(e)

(* C10: the highlighted action is the first event of the decision sequence  *)
(* whose type is "action"; when there is none, no action is highlighted and *)
(* no one-thing card is rendered; an event of an audit bucket is never      *)
(* the highlighted action.                                                  *)
C10_HighlightedAction ==
    Built =>
        LET actions == {i \in 1..Len(jde_events) :
                            "type" \in DOMAIN jde_events[i] /\ jde_events[i].type = "action"}
        IN  /\ actions = {} => (views.one_thing = <<>> /\ views.one_thing_html = <<>>)
            /\ actions # {} =>
                   LET first == CHOOSE i \in actions : \A j \in actions : i <= j
                   IN  /\ views.one_thing = <<jde_events[first]>>
                       /\ Len(views.one_thing_html) = 1
                       /\ views.one_thing_html[1].title =
                              (IF "title" \in DOMAIN jde_events[first]
                                   THEN jde_events[first].title ELSE "")
            /\ \A e \in Range(Observation) \cup Range(Evaluation) \cup Range(Evolution) :
                   views.one_thing # <<e>>

C10_Witness ==
    /\ pc = "done"
    /\ Len(InputEvents) = 4
    /\ StageOf(InputEvents[1]) = 8
    /\ "type" \in DOMAIN InputEvents[1] /\ InputEvents[1].type = "action"
    /\ "type" \in DOMAIN InputEvents[2] /\ InputEvents[2].type = "normal"
    /\ InputEvents[3].title = "B"
    /\ InputEvents[4].title = "A"
    /\ views.one_thing = <<InputEvents[3]>>
    /\ views.one_thing_html[1].action_label = "Go"


(* C11: the audit panel has exactly three sections, in the order            *)
(* observation, evaluation, evolution; a section shows "No data recorded"   *)
(* iff its bucket is empty, and otherwise one item per bucket event in      *)
(* bucket order; no section is ever omitted.                                *)
C11_AuditPanel ==
    Built =>
        LET panel   == views.joe_panel
            buckets == <<Observation, Evaluation, Evolution>>
        IN  /\ Len(panel) = 3
            /\ <<panel[1].title, panel[2].title, panel[3].title>>
                   = <<"Observation", "Evaluation", "Evolution">>
            /\ \A k \in 1..3 :
                   /\ panel[k].empty = "No data recorded" <=> buckets[k] = <<>>
                   /\ panel[k].empty \in {"No data recorded", ""}
                   /\ Len(panel[k].items) = Len(buckets[k])
                   /\ \A i \in 1..Len(buckets[k]) :
                          /\ panel[k].items[i].stage = 7 + k
                          /\ panel[k].items[i].title =
                                 (IF "title" \in DOMAIN buckets[k][i]
                                      THEN buckets[k][i].title ELSE "Untitled")

C11_Witness ==
    /\ pc = "done"
    /\ Len(Observation) = 2
    /\ Evaluation = <<>>
    /\ Len(Evolution) = 1
    /\ Len(views.joe_panel) = 3
    /\ views.joe_panel[1].items[1].title = "B"
    /\ views.joe_panel[1].items[2].title = "A"
    /\ views.joe_panel[2].empty = "No data recorded"
    /\ views.joe_panel[3].empty = ""


\* the run has ended
Ended == pc \in {"done", "exit1", "aborted"}

(* C12: a run either completes and writes exactly one document or aborts    *)
(* with an error and writes none; a failed load (file not found, invalid    *)
(* JSON) ends the run with exit status 1 before anything is written; the    *)
(* document is written only after loading, classification and the building  *)
(* of all views have completed.                                             *)
C12_OneDocumentOrNone ==
    /\ Len(output) <= 1
    /\ Len(output) = 1 <=> pc = "done"
    /\ pc \in {"exit1", "aborted"} => (output = <<>> /\ raised # "none")
    /\ (file.status # "ok" /\ pc # "start") =>
           (pc = "exit1" /\ raised = "SystemExit" /\ output = <<>>)
    /\ pc = "exit1" => file.status # "ok"
    /\ output # <<>> =>
           /\ file.status = "ok" /\ design_data = file.data
           /\ raised = "none"
           /\ views.global_status \in {"OK", "Warning"}
           /\ Len(views.joe_panel) = 3
           /\ output[1].views = views
    /\ Ended <=> ~ENABLED Next

C12_Witness ==
    /\ pc = "exit1"
    /\ file.status = "invalid"
    /\ raised = "SystemExit"
    /\ output = <<>>
    /\ views = NoViews


(* C13: the transformation is deterministic and keeps no hidden state: a    *)
(* second run on the same design directive, in the same engine or in a new  *)
(* one, yields the same decision sequence, audit buckets and view data and  *)
(* writes the same document, and a run changes neither the loaded design    *)
(* directive nor the engine's log.                                          *)
C13_Deterministic ==
    /\ [](\A i, j \in 1..Len(output) : output[i] = output[j])
    /\ []((file.status = "ok" /\ pc # "start") => design_data = file.data)
    /\ [](timeline_log = <<>>)
    /\ [][(output # <<>> /\ pc = "constructed" /\ pc' = "classified") =>
              (jde_events' = jde_events /\ joe_data' = joe_data)]_vars
    /\ [][(output # <<>> /\ pc = "classified" /\ pc' = "built") =>
              views' = views]_vars
    /\ [][(output # <<>> /\ pc = "start") => pc' = "constructed"]_vars

C13_Witness ==
    /\ pc = "done"
    /\ Len(output) = 2
    /\ Len(jde_events) >= 2
    /\ Observation # <<>>
    /\ output[2].views.warning_count = 1
    /\ output[2].views.joe_panel[1].empty = ""


\* the operator-visible views: everything but the audit panel
OperatorViews(v) ==
    [warning_count        |-> v.warning_count,
     global_status        |-> v.global_status,
     one_thing            |-> v.one_thing,
     one_thing_html       |-> v.one_thing_html,
     signal_cards_html    |-> v.signal_cards_html,
     history_html         |-> v.history_html,
     reason_sections_html |-> v.reason_sections_html]

\* the input without its events of stage 8, 9 and 10
WithoutAuditEvents == LET Kept(e) == StageOf(e) \notin 8..10
                      IN  SelectSeq(InputEvents, Kept)

(* C14: audit-layer events do not influence the operator-visible views:     *)
(* the status, warningCount, highlighted action, leading signals, recent    *)
(* history and reasoning sections of a run are those of the run on the      *)
(* input with every event of stage 8, 9 or 10 removed, so two inputs that   *)
(* differ only in such events have the same operator-visible views.         *)
C14_AuditEventsDoNotInfluence ==
    Built =>
        LET c == Classify(WithoutAuditEvents)
        IN  /\ OperatorViews(views) = OperatorViews(BuildViewData(c.jde, c.joe))
            /\ jde_events = c.jde

C14_Witness ==
    /\ pc = "done"
    /\ Len(InputEvents) = 4
    /\ StageOf(InputEvents[1]) = 8 /\ Truthy(InputEvents[1], "safety_trigger")
    /\ StageOf(InputEvents[3]) = 8
    /\ Len(jde_events) = 2
    /\ views.warning_count = 0
    /\ views.global_status = "OK"
    /\ Len(views.signal_cards_html) = 2
    /\ Len(views.joe_panel[1].items) = 2

\* the number of items of all the sections of secs
RECURSIVE TotalItems(_)
TotalItems(secs) ==
    IF secs = <<>> THEN 0 ELSE Len(Head(secs).items) + TotalItems(Tail(secs))

(* C15: every event of the decision sequence has an item in exactly one     *)
(* reasoning section: the number of reasoning items over all sections is    *)
(* the length of the decision sequence.                                     *)
C15_ReasoningCoversDecisionSequence ==
    Built =>
        /\ TotalItems(views.reason_sections_html) = Len(jde_events)
        /\ \A i \in 1..Len(jde_events) :
               Cardinality({k \in 1..Len(views.reason_sections_html) :
                                i \in PositionsOfStage(views.reason_sections_html[k].stage)}) = 1

====
